---- MODULE Spec2Model ----
(***************************************************************************)
(* DeltaScope (src/deltascope.py): decoding of the event logs of an EVM    *)
(* transaction receipt into token transfers and approvals, and the batch   *)
(* loop of main around it.                                                 *)
(*                                                                         *)
(* Representation of Python values:                                        *)
(*   int        a sequence of decimal digits, most significant first,      *)
(*              without leading zeros (0 is <<0>>): amounts are uint256    *)
(*              values and the threshold 10**10 does not fit a TLC integer *)
(*   str        a sequence of one-character strings                        *)
(*   bytes      a sequence of numbers 0..255                               *)
(*   None       the empty sequence (no int and no address is empty)        *)
(*   a 32-byte topic  <<hi, lo>>: its upper 12 bytes and its lower 20      *)
(***************************************************************************)
EXTENDS Integers, Sequences, FiniteSets, TLC

VARIABLES
    argv_tx,    \* main: args.tx, the requested transaction hashes
    chain,      \* the node: what get_transaction_receipt answers for each hash
    pc,         \* "main" (head of main's loop), "logs" (inside parse_tx's loop),
                \* "except" (an exception is propagating to main), "done",
                \* "format" (a direct call of _format_amount)
    txi,        \* main: number of hashes of args.tx already handled
    logs,       \* parse_tx: receipt["logs"]
    li,         \* parse_tx: number of logs already handled
    transfers,  \* parse_tx: the list transfers
    approvals,  \* parse_tx: the list approvals
    lookups,    \* the token addresses _safe_symbol_and_decimals was called
                \* with by this parse_tx, in call order
    answers,    \* how the node answered the calls of the latest lookup
    meta,       \* parse_tx: the locals symbol, decimals, erc_guess
    exc,        \* the exception propagating, "" when there is none
    reports,    \* main: the list reports
    errors,     \* main: the failures printed, one per skipped transaction
    fmt         \* a direct call of _format_amount: its arguments and result

vars == <<argv_tx, chain, pc, txi, logs, li, transfers, approvals,
          lookups, answers, meta, exc, reports, errors, fmt>>

\* ------------------------------------------------------------------------
\* Bounds of the model
\* ------------------------------------------------------------------------
MaxLogs == 2
MaxTx == 2
MaxDecimals == 18
MaxZeros == 2

\* ------------------------------------------------------------------------
\* Python int: arbitrary precision arithmetic on decimal digits
\* ------------------------------------------------------------------------
None == <<>>

Zeros(n) == [i \in 1..n |-> 0]

RECURSIVE Norm(_)
Norm(a) ==
    IF Len(a) > 1 /\ a[1] = 0 THEN Norm(Tail(a)) ELSE a

RECURSIVE NatDigits(_)
NatDigits(n) ==
    IF n < 10 THEN <<n>> ELSE Append(NatDigits(n \div 10), n % 10)

RECURSIVE MulRec(_, _, _, _)
MulRec(a, m, i, carry) ==
    IF i = 0 THEN NatDigits(carry)
    ELSE LET t == a[i] * m + carry
         IN  Append(MulRec(a, m, i - 1, t \div 10), t % 10)

\* a * m + c for small m, c
MulAdd(a, m, c) == Norm(MulRec(a, m, Len(a), c))

\* a * 10^n
Shift(a, n) == Norm(a \o Zeros(n))

LessEq(a, b) ==
    \/ Len(a) < Len(b)
    \/ /\ Len(a) = Len(b)
       /\ \/ a = b
          \/ \E i \in 1..Len(a) :
                /\ a[i] < b[i]
                /\ \A j \in 1..(i - 1) : a[j] = b[j]

Less(a, b) == LessEq(a, b) /\ a # b

RECURSIVE SubRec(_, _, _, _)
SubRec(a, b, i, borrow) ==
    IF i = 0 THEN <<>>
    ELSE LET t == a[i] - b[i] - borrow
         IN  Append(SubRec(a, b, i - 1, IF t < 0 THEN 1 ELSE 0),
                    IF t < 0 THEN t + 10 ELSE t)

\* a - b for a >= b
Sub(a, b) ==
    LET bp == Zeros(Len(a) - Len(b)) \o b
    IN  Norm(SubRec(a, bp, Len(a), 0))

AbsDiff(a, b) == IF LessEq(a, b) THEN Sub(b, a) ELSE Sub(a, b)

MaxOf(a, b) == IF LessEq(a, b) THEN b ELSE a

\* ------------------------------------------------------------------------
\* Python str
\* ------------------------------------------------------------------------
DigitChar == <<"0", "1", "2", "3", "4", "5", "6", "7", "8", "9">>

CharDigit(c) == CHOOSE d \in 0..9 : DigitChar[d + 1] = c

\* str(n) of an int
Str(n) == [i \in 1..Len(n) |-> DigitChar[n[i] + 1]]

\* s.rstrip(ch)
RECURSIVE Rstrip(_, _)
Rstrip(s, ch) ==
    IF Len(s) > 0 /\ s[Len(s)] = ch
    THEN Rstrip(SubSeq(s, 1, Len(s) - 1), ch)
    ELSE s

\* ------------------------------------------------------------------------
\* _format_amount
\* ------------------------------------------------------------------------
\* variant: the amount printed with {scaled:.7f}
FRAC_DIGITS_Seven == 8 - 1

\* digits printed after the decimal point by the format  {scaled:.8f}
FRAC_DIGITS == 8

\* round(raw / 10**decimals * 10**digits) as an int.  Python's int / int is
\* the binary64 nearest to the exact quotient and .8f prints the decimal
\* nearest to that float; for raw < 2**53 (every amount of this model) the
\* float is closer to the quotient than any other multiple of 10**-decimals,
\* so the printed digits are those of the exact quotient rounded to nearest,
\* except when the quotient lies exactly halfway between two printed values:
\* then the float may fall on either side (5/10**9 prints 0.00000001, rounded
\* up, and 15/10**9 prints 0.00000001, rounded down), which tie_up chooses.
ScaledUnits(raw, decimals, digits, tie_up) ==
    IF decimals <= digits
    THEN Shift(raw, digits - decimals)
    ELSE LET cut  == decimals - digits
             pad  == IF Len(raw) < cut THEN Zeros(cut - Len(raw)) \o raw ELSE raw
             keep == IF Len(pad) = cut THEN <<0>>
                     ELSE SubSeq(pad, 1, Len(pad) - cut)
             rest == SubSeq(pad, Len(pad) - cut + 1, Len(pad))
             half == <<5>> \o Zeros(cut - 1)
             up   == IF rest = half THEN tie_up
                     ELSE \E i \in 1..cut :
                            /\ rest[i] > half[i]
                            /\ \A j \in 1..(i - 1) : rest[j] = half[j]
         IN  IF up THEN MulAdd(keep, 1, 1) ELSE keep

\* f"{scaled:.8f}"
FixedPoint(units, digits) ==
    LET u == IF Len(units) <= digits
             THEN Zeros(digits + 1 - Len(units)) \o units
             ELSE units
    IN  Str(SubSeq(u, 1, Len(u) - digits)) \o <<".">>
            \o Str(SubSeq(u, Len(u) - digits + 1, Len(u)))

_format_amount(raw, decimals, tie_up) ==
    IF decimals = 0
    THEN Str(raw)
    ELSE Rstrip(Rstrip(FixedPoint(ScaledUnits(raw, decimals, FRAC_DIGITS, tie_up),
                                  FRAC_DIGITS), "0"), ".")

\* ------------------------------------------------------------------------
\* Event signatures, topics, addresses, payloads
\* ------------------------------------------------------------------------
\* The keccak-256 values are stood for by four distinct topics.
SIG_TRANSFER == <<101, 1>>
SIG_APPROVAL == <<102, 2>>
SIG_TF_SINGLE == <<103, 3>>
SIG_TF_BATCH == <<104, 4>>

\* Web3.to_checksum_address: the canonical rendering of a 20-byte address
to_checksum_address(a) == <<"0x", a>>

\* topics[k] (k counted from 0) raises IndexError
IndexError(topics, k) == k >= Len(topics)

\* Web3.to_checksum_address("0x" + topics[k].hex()[-40:]): the lower 20 bytes
TopicAddress(topics, k) == to_checksum_address(topics[k + 1][2])

\* b[lo:hi] of Python, for 0 <= lo <= hi
Slice(b, lo, hi) ==
    LET h == IF hi > Len(b) THEN Len(b) ELSE hi
    IN  IF lo >= h THEN <<>> ELSE SubSeq(b, lo + 1, h)

\* int.from_bytes(b, "big")
RECURSIVE FromBytesRec(_, _, _)
FromBytesRec(b, i, acc) ==
    IF i > Len(b) THEN acc
    ELSE LET next == MulAdd(acc, 256, b[i])
         IN  IF Len(next) > 0 THEN FromBytesRec(b, i + 1, next) ELSE next

from_bytes(b) == FromBytesRec(b, 1, <<0>>)

\* 10**10, the threshold of the ERC721 heuristic
TOKEN_ID_LIMIT == Shift(<<1>>, 10)

\* ------------------------------------------------------------------------
\* _safe_symbol_and_decimals
\* ------------------------------------------------------------------------
\* How a contract call ends
Raised == <<"raised">>
Returned(v) == <<"returned", v>>
NotCalled == <<"not called">>

\* variant: the handler of a failed decimals() leaves decimals at its default
_safe_symbol_and_decimals_Keeps18(w3) ==
    LET symbol == IF w3.symbol = Raised THEN "UNKNOWN" ELSE w3.symbol[2]
    IN  IF w3.decimals # Raised
        THEN [symbol |-> symbol, decimals |-> w3.decimals[2], standard |-> "ERC20"]
        ELSE [symbol   |-> IF w3.symbol721 = Raised THEN symbol ELSE w3.symbol721[2],
              decimals |-> 18,
              standard |-> "ERC721"]

\* w3 holds how the node answers the calls made for token_addr: symbol() and
\* decimals() through ERC20_ABI, symbol() through ERC721_ABI
_safe_symbol_and_decimals(w3) ==
    LET symbol == IF w3.symbol = Raised THEN "UNKNOWN" ELSE w3.symbol[2]
    IN  IF w3.decimals # Raised
        THEN [symbol |-> symbol, decimals |-> w3.decimals[2], standard |-> "ERC20"]
        ELSE [symbol   |-> IF w3.symbol721 = Raised THEN symbol ELSE w3.symbol721[2],
              decimals |-> 0,
              standard |-> "ERC721"]

\* ------------------------------------------------------------------------
\* parse_tx: the record of one log
\* ------------------------------------------------------------------------
\* topic0 in (SIG_TRANSFER, SIG_TF_SINGLE, SIG_TF_BATCH, SIG_APPROVAL)
Recognized(topic0) ==
    topic0 \in {SIG_TRANSFER, SIG_TF_SINGLE, SIG_TF_BATCH, SIG_APPROVAL}

\* the log makes parse_tx raise IndexError: it has no topics[0], or its
\* branch reads a topic it does not have
Raises(lg) ==
    IF IndexError(lg.topics, 0) THEN TRUE
    ELSE IF lg.topics[1] \in {SIG_TRANSFER, SIG_APPROVAL} THEN IndexError(lg.topics, 2)
    ELSE IF lg.topics[1] \in {SIG_TF_SINGLE, SIG_TF_BATCH} THEN IndexError(lg.topics, 3)
    ELSE FALSE

\* variant: the heuristic without its threshold on the raw amount
ClassifyTransfer_NoLimit(erc_guess, decimals, raw_amount, tie_up) ==
    IF erc_guess = "ERC721" \/ decimals = 0
    THEN [token_id |-> raw_amount, amount |-> <<"1">>, standard |-> "ERC721"]
    ELSE [token_id |-> None,
          amount   |-> _format_amount(raw_amount, decimals, tie_up),
          standard |-> "ERC20"]

\* variant: the ERC20 branch keeps the raw amount as token-id
ClassifyTransfer_KeepsId(erc_guess, decimals, raw_amount, tie_up) ==
    IF erc_guess = "ERC721" \/ (decimals = 0 /\ Less(raw_amount, Shift(<<1>>, 10)))
    THEN [token_id |-> raw_amount, amount |-> <<"1">>, standard |-> "ERC721"]
    ELSE [token_id |-> raw_amount,
          amount   |-> _format_amount(raw_amount, decimals, tie_up),
          standard |-> "ERC20"]

\* the ERC721 / ERC20 decision of the Transfer branch
ClassifyTransfer(erc_guess, decimals, raw_amount, tie_up) ==
    IF erc_guess = "ERC721" \/ (decimals = 0 /\ Less(raw_amount, TOKEN_ID_LIMIT))
    THEN [token_id |-> raw_amount, amount |-> <<"1">>, standard |-> "ERC721"]
    ELSE [token_id |-> None,
          amount   |-> _format_amount(raw_amount, decimals, tie_up),
          standard |-> "ERC20"]

TransferRecord(lg, m, tie_up) ==
    LET raw_amount == from_bytes(lg.data)
        c == ClassifyTransfer(m.standard, m.decimals, raw_amount, tie_up)
    IN  [token      |-> to_checksum_address(lg.address),
         symbol     |-> m.symbol,
         standard   |-> c.standard,
         from_addr  |-> TopicAddress(lg.topics, 1),
         to_addr    |-> TopicAddress(lg.topics, 2),
         amount     |-> c.amount,
         raw_amount |-> raw_amount,
         token_id   |-> c.token_id]

\* variant: the two words of the payload read in the other order
SingleRecord_Swapped(lg, m) ==
    LET token_id   == from_bytes(Slice(lg.data, 32, 64))
        raw_amount == from_bytes(Slice(lg.data, 0, 32))
    IN  [token      |-> to_checksum_address(lg.address),
         symbol     |-> m.symbol,
         standard   |-> "ERC1155",
         from_addr  |-> TopicAddress(lg.topics, 2),
         to_addr    |-> TopicAddress(lg.topics, 3),
         amount     |-> Str(raw_amount),
         raw_amount |-> raw_amount,
         token_id   |-> token_id]

SingleRecord(lg, m) ==
    LET token_id   == from_bytes(Slice(lg.data, 0, 32))
        raw_amount == from_bytes(Slice(lg.data, 32, 64))
    IN  [token      |-> to_checksum_address(lg.address),
         symbol     |-> m.symbol,
         standard   |-> "ERC1155",
         from_addr  |-> TopicAddress(lg.topics, 2),
         to_addr    |-> TopicAddress(lg.topics, 3),
         amount     |-> Str(raw_amount),
         raw_amount |-> raw_amount,
         token_id   |-> token_id]

BatchRecord(lg, m) ==
    [token      |-> to_checksum_address(lg.address),
     symbol     |-> m.symbol,
     standard   |-> "ERC1155",
     from_addr  |-> TopicAddress(lg.topics, 2),
     to_addr    |-> TopicAddress(lg.topics, 3),
     amount     |-> <<"B", "A", "T", "C", "H">>,
     raw_amount |-> <<0>>,
     token_id   |-> None]

ApprovalRecord(lg, m, tie_up) ==
    LET raw_amount == from_bytes(lg.data)
    IN  [token      |-> to_checksum_address(lg.address),
         symbol     |-> m.symbol,
         owner      |-> TopicAddress(lg.topics, 1),
         spender    |-> TopicAddress(lg.topics, 2),
         amount     |-> _format_amount(raw_amount, m.decimals, tie_up),
         raw_amount |-> raw_amount]

\* ------------------------------------------------------------------------
\* Inputs: logs, receipts, answers of the node
\* ------------------------------------------------------------------------
\* a 32-byte big-endian word whose low bytes are b
Word(b) == Zeros(32 - Len(b)) \o b

Log(address, topics, data) ==
    [address |-> address, topics |-> topics, data |-> data]

\* token contracts 1 and 2; accounts 3, 4 and 5 in indexed topics, one of
\* them with non-zero upper bytes
TokenA == 1
TokenB == 2
Alice == <<0, 3>>
Bob == <<0, 4>>
Operator == <<7, 5>>
SIG_DEPOSIT == <<105, 5>>

\* 10**10 = 0x02540BE400 as big-endian bytes
TenToTheTen == <<2, 84, 11, 228, 0>>

TransferLogs ==
    { Log(TokenA, <<SIG_TRANSFER, Alice, Bob>>, Word(<<3>>)),
      Log(TokenA, <<SIG_TRANSFER, Operator, Alice>>, Word(TenToTheTen)),
      Log(TokenB, <<SIG_TRANSFER, Alice, Bob>>, <<7>>) }

SingleLogs ==
    { Log(TokenB, <<SIG_TF_SINGLE, Operator, Alice, Bob>>, Word(<<>>) \o Word(<<5>>)) }

BatchLogs ==
    { Log(TokenB, <<SIG_TF_BATCH, Operator, Alice, Bob>>, Word(<<64>>) \o Word(<<128>>)) }

ApprovalLogs ==
    { Log(TokenA, <<SIG_APPROVAL, Alice, Operator>>, Word(<<5>>)) }

OtherLogs ==
    { Log(TokenA, <<SIG_DEPOSIT, Alice>>, Word(<<1>>)) }

\* logs with fewer topics than parse_tx reads
TruncatedLogs ==
    { Log(TokenA, <<>>, Word(<<1>>)),
      Log(TokenA, <<SIG_TRANSFER, Alice>>, Word(<<3>>)) }

SampleLogs ==
    TransferLogs \cup SingleLogs \cup BatchLogs \cup ApprovalLogs
        \cup OtherLogs \cup TruncatedLogs

SeqsUpTo(S, n) == UNION { [1..k -> S] : k \in 0..n }

NotFound == [found |-> FALSE, logs |-> <<>>]
Receipt(lgs) == [found |-> TRUE, logs |-> lgs]

\* receipts of a single decode: every list of up to MaxLogs sample logs
Receipts == {NotFound} \cup { Receipt(l) : l \in SeqsUpTo(SampleLogs, MaxLogs) }

\* receipts of a batch run: one log of each kind
BatchReceipts ==
    {NotFound, Receipt(<<>>)} \cup { Receipt(<<lg>>) : lg \in
        { Log(TokenA, <<SIG_TRANSFER, Alice, Bob>>, Word(<<3>>)),
          Log(TokenB, <<SIG_TF_SINGLE, Operator, Alice, Bob>>, Word(<<>>) \o Word(<<5>>)),
          Log(TokenB, <<SIG_TF_BATCH, Operator, Alice, Bob>>, Word(<<64>>) \o Word(<<128>>)),
          Log(TokenA, <<SIG_APPROVAL, Alice, Operator>>, Word(<<5>>)),
          Log(TokenA, <<SIG_DEPOSIT, Alice>>, Word(<<1>>)),
          Log(TokenA, <<>>, Word(<<1>>)) } }

DecimalsValues == {0, 18}

\* the answers of the node to the calls of one lookup; symbol() through
\* ERC721_ABI is called only after decimals() raised
W3Answers ==
    { a \in [symbol    : {Raised, Returned("TKN")},
              decimals  : {Raised} \cup { Returned(d) : d \in DecimalsValues },
              symbol721 : {Raised, Returned("NFT"), NotCalled}] :
        (a.symbol721 = NotCalled) <=> (a.decimals # Raised) }

\* amounts of the direct calls of _format_amount
Mantissas ==
    { <<0>>, <<1>>, <<4>>, <<5>>, <<1, 5>>, <<1, 2, 5>>, <<9, 9, 5>>,
      <<1, 9, 5, 3, 1, 2, 5>>, <<9, 9, 9, 9, 9, 9, 9, 9, 5>>,
      <<1, 0, 0, 0, 0, 0, 0, 0, 0, 1>> }

RawAmounts == { Shift(m, z) : m \in Mantissas, z \in 0..MaxZeros }

NoCall == [raw |-> <<0>>, decimals |-> 0, out |-> None]

\* ------------------------------------------------------------------------
\* Initial states
\* ------------------------------------------------------------------------
\* no lookup was made yet
NoAnswers == [symbol |-> NotCalled, decimals |-> NotCalled, symbol721 |-> NotCalled]

\* the locals symbol, decimals, erc_guess before their first assignment
Unbound == [symbol |-> "", decimals |-> 0, standard |-> ""]

Idle ==
    /\ txi = 0
    /\ logs = <<>>
    /\ li = 0
    /\ transfers = <<>>
    /\ approvals = <<>>
    /\ lookups = <<>>
    /\ answers = NoAnswers
    /\ meta = Unbound
    /\ exc = ""
    /\ reports = <<>>
    /\ errors = <<>>

\* main called with one hash
Init ==
    /\ argv_tx = <<1>>
    /\ chain \in [{1} -> Receipts]
    /\ pc = "main"
    /\ fmt = NoCall
    /\ Idle

\* main called with up to MaxTx hashes
InitBatch ==
    /\ \E n \in 1..MaxTx :
          /\ argv_tx = [i \in 1..n |-> i]
          /\ chain \in [1..n -> BatchReceipts]
    /\ pc = "main"
    /\ fmt = NoCall
    /\ Idle

\* _format_amount called directly
InitFormat ==
    /\ argv_tx = <<>>
    /\ chain = <<>>
    /\ pc = "format"
    /\ fmt \in [raw : RawAmounts, decimals : 0..MaxDecimals, out : {None}]
    /\ Idle

\* ------------------------------------------------------------------------
\* parse_tx
\* ------------------------------------------------------------------------
main_vars == <<argv_tx, chain, reports, errors, fmt>>

\* get_transaction / get_transaction_receipt raise
ParseTxNotFound ==
    /\ pc = "main"
    /\ txi < Len(argv_tx)
    /\ ~chain[argv_tx[txi + 1]].found
    /\ pc' = "except"
    /\ exc' = "TransactionNotFound"
    /\ UNCHANGED <<txi, logs, li, transfers, approvals, lookups, answers, meta,
                   main_vars>>

ParseTxBegin ==
    /\ pc = "main"
    /\ txi < Len(argv_tx)
    /\ chain[argv_tx[txi + 1]].found
    /\ pc' = "logs"
    /\ logs' = chain[argv_tx[txi + 1]].logs
    /\ li' = 0
    /\ transfers' = <<>>
    /\ approvals' = <<>>
    /\ lookups' = <<>>
    /\ answers' = NoAnswers
    /\ meta' = Unbound
    /\ UNCHANGED <<txi, exc, main_vars>>

\* symbol, decimals, erc_guess = _safe_symbol_and_decimals(w3, addr)
Lookup(lg, w3) ==
    /\ lookups' = Append(lookups, to_checksum_address(lg.address))
    /\ answers' = w3
    /\ meta' = _safe_symbol_and_decimals(w3)

\* the loop is at a log
AtLog ==
    /\ pc = "logs"
    /\ li < Len(logs)

LogRaises ==
    /\ AtLog
    /\ LET lg == logs[li + 1]
       IN  /\ Raises(lg)
           /\ IF ~IndexError(lg.topics, 0) /\ Recognized(lg.topics[1])
              THEN \E w3 \in W3Answers : Lookup(lg, w3)
              ELSE UNCHANGED <<lookups, answers, meta>>
    /\ pc' = "except"
    /\ exc' = "IndexError"
    /\ UNCHANGED <<txi, logs, li, transfers, approvals, main_vars>>

\* variant: the record of a Transfer log put at the head of the list
DecodeTransfer_Prepend ==
    /\ AtLog
    /\ LET lg == logs[li + 1]
       IN  /\ ~Raises(lg)
           /\ lg.topics[1] = SIG_TRANSFER
           /\ \E w3 \in W3Answers, tie_up \in BOOLEAN :
                 /\ Lookup(lg, w3)
                 /\ transfers' = <<TransferRecord(lg, meta', tie_up)>> \o transfers
    /\ li' = li + 1
    /\ UNCHANGED <<pc, txi, logs, approvals, exc, main_vars>>

DecodeTransfer ==
    /\ AtLog
    /\ LET lg == logs[li + 1]
       IN  /\ ~Raises(lg)
           /\ lg.topics[1] = SIG_TRANSFER
           /\ \E w3 \in W3Answers, tie_up \in BOOLEAN :
                 /\ Lookup(lg, w3)
                 /\ transfers' = Append(transfers, TransferRecord(lg, meta', tie_up))
    /\ li' = li + 1
    /\ UNCHANGED <<pc, txi, logs, approvals, exc, main_vars>>

DecodeTransferSingle ==
    /\ AtLog
    /\ LET lg == logs[li + 1]
       IN  /\ ~Raises(lg)
           /\ lg.topics[1] = SIG_TF_SINGLE
           /\ \E w3 \in W3Answers :
                 /\ Lookup(lg, w3)
                 /\ transfers' = Append(transfers, SingleRecord(lg, meta'))
    /\ li' = li + 1
    /\ UNCHANGED <<pc, txi, logs, approvals, exc, main_vars>>

DecodeTransferBatch ==
    /\ AtLog
    /\ LET lg == logs[li + 1]
       IN  /\ ~Raises(lg)
           /\ lg.topics[1] = SIG_TF_BATCH
           /\ \E w3 \in W3Answers :
                 /\ Lookup(lg, w3)
                 /\ transfers' = Append(transfers, BatchRecord(lg, meta'))
    /\ li' = li + 1
    /\ UNCHANGED <<pc, txi, logs, approvals, exc, main_vars>>

DecodeApproval ==
    /\ AtLog
    /\ LET lg == logs[li + 1]
       IN  /\ ~Raises(lg)
           /\ lg.topics[1] = SIG_APPROVAL
           /\ \E w3 \in W3Answers, tie_up \in BOOLEAN :
                 /\ Lookup(lg, w3)
                 /\ approvals' = Append(approvals, ApprovalRecord(lg, meta', tie_up))
    /\ li' = li + 1
    /\ UNCHANGED <<pc, txi, logs, transfers, exc, main_vars>>

\* a first topic that is none of the four signatures: no branch is taken
SkipLog ==
    /\ AtLog
    /\ ~Raises(logs[li + 1])
    /\ ~Recognized(logs[li + 1].topics[1])
    /\ li' = li + 1
    /\ UNCHANGED <<pc, txi, logs, transfers, approvals, lookups, answers, meta,
                   exc, main_vars>>

\* ------------------------------------------------------------------------
\* main
\* ------------------------------------------------------------------------
TxSummary(tx_hash, t, a) ==
    [tx_hash |-> tx_hash, transfers |-> t, approvals |-> a]

ForgetLocals ==
    /\ logs' = <<>>
    /\ li' = 0
    /\ transfers' = <<>>
    /\ approvals' = <<>>
    /\ lookups' = <<>>
    /\ answers' = NoAnswers
    /\ meta' = Unbound

\* parse_tx returns the summary and main appends it to reports
ReturnSummary ==
    /\ pc = "logs"
    /\ li = Len(logs)
    /\ reports' = Append(reports, TxSummary(argv_tx[txi + 1], transfers, approvals))
    /\ txi' = txi + 1
    /\ pc' = "main"
    /\ ForgetLocals
    /\ UNCHANGED <<argv_tx, chain, exc, errors, fmt>>

\* variant: the handler leaves the loop (break) instead of continuing it
Except_Break ==
    /\ pc = "except"
    /\ errors' = Append(errors, [tx_hash |-> argv_tx[txi + 1], e |-> exc])
    /\ exc' = ""
    /\ txi' = txi + 1
    /\ pc' = "done"
    /\ ForgetLocals
    /\ UNCHANGED <<argv_tx, chain, reports, fmt>>

\* except Exception as e: print(...); continue
Except ==
    /\ pc = "except"
    /\ errors' = Append(errors, [tx_hash |-> argv_tx[txi + 1], e |-> exc])
    /\ exc' = ""
    /\ txi' = txi + 1
    /\ pc' = "main"
    /\ ForgetLocals
    /\ UNCHANGED <<argv_tx, chain, reports, fmt>>

\* the loop is exhausted: main returns 0
MainReturns ==
    /\ pc = "main"
    /\ txi = Len(argv_tx)
    /\ pc' = "done"
    /\ UNCHANGED <<argv_tx, chain, txi, logs, li, transfers, approvals,
                   lookups, answers, meta, exc, reports, errors, fmt>>

\* a direct call of _format_amount
FormatCall ==
    /\ pc = "format"
    /\ fmt.out = None
    /\ \E tie_up \in BOOLEAN :
          fmt' = [fmt EXCEPT !.out = _format_amount(fmt.raw, fmt.decimals, tie_up)]
    /\ UNCHANGED <<argv_tx, chain, pc, txi, logs, li, transfers, approvals,
                   lookups, answers, meta, exc, reports, errors>>

Next ==
    \/ ParseTxNotFound
    \/ ParseTxBegin
    \/ LogRaises
    \/ DecodeTransfer
    \/ DecodeTransferSingle
    \/ DecodeTransferBatch
    \/ DecodeApproval
    \/ SkipLog
    \/ ReturnSummary
    \/ Except
    \/ MainReturns

NextFormat == FormatCall

Spec == Init /\ [][Next]_vars

SpecBatch == InitBatch /\ [][Next]_vars

SpecFormat == InitFormat /\ [][NextFormat]_vars

\* ------------------------------------------------------------------------
\* Properties
\* ------------------------------------------------------------------------
Last(q) == q[Len(q)]

\* the log just handled by the loop of parse_tx has first topic sig
AfterLog(sig) ==
    /\ pc = "logs"
    /\ li > 0
    /\ logs[li].topics[1] = sig

IsTransferKind(lg) ==
    /\ Len(lg.topics) > 0
    /\ lg.topics[1] \in {SIG_TRANSFER, SIG_TF_SINGLE, SIG_TF_BATCH}

IsApprovalKind(lg) ==
    /\ Len(lg.topics) > 0
    /\ lg.topics[1] = SIG_APPROVAL

IsRecognizedKind(lg) == IsTransferKind(lg) \/ IsApprovalKind(lg)

\* the transfer record t was made from the log lg
TransferOf(t, lg) ==
    /\ t.token = <<"0x", lg.address>>
    /\ IF lg.topics[1] = SIG_TRANSFER
       THEN /\ t.standard \in {"ERC20", "ERC721"}
            /\ t.from_addr = <<"0x", lg.topics[2][2]>>
            /\ t.to_addr = <<"0x", lg.topics[3][2]>>
            /\ t.raw_amount = from_bytes(lg.data)
       ELSE /\ t.standard = "ERC1155"
            /\ t.from_addr = <<"0x", lg.topics[3][2]>>
            /\ t.to_addr = <<"0x", lg.topics[4][2]>>
            /\ (t.amount = <<"B", "A", "T", "C", "H">>) <=> (lg.topics[1] = SIG_TF_BATCH)

\* the approval record a was made from the log lg
ApprovalOf(a, lg) ==
    /\ a.token = <<"0x", lg.address>>
    /\ a.owner = <<"0x", lg.topics[2][2]>>
    /\ a.spender = <<"0x", lg.topics[3][2]>>
    /\ a.raw_amount = from_bytes(lg.data)

\* the lists t and a hold one record per recognized log of lgs, in log order
RecordsFollowLogs(t, a, lgs) ==
    LET tl == SelectSeq(lgs, IsTransferKind)
        al == SelectSeq(lgs, IsApprovalKind)
    IN  /\ Len(t) = Len(tl)
        /\ Len(a) = Len(al)
        /\ \A i \in 1..Len(tl) : TransferOf(t[i], tl[i])
        /\ \A i \in 1..Len(al) : ApprovalOf(a[i], al[i])

\* C1: while parse_tx decodes and in every summary it returned, transfers
\* holds exactly one record per log whose first topic is Transfer,
\* TransferSingle or TransferBatch and approvals one record per Approval log,
\* each list in the order of the logs; a log with another first topic adds
\* no record and leaves the records of the other logs as they are.
C1_RecordsInLogOrder ==
    /\ pc = "logs" => RecordsFollowLogs(transfers, approvals, SubSeq(logs, 1, li))
    /\ \A r \in 1..Len(reports) :
          RecordsFollowLogs(reports[r].transfers, reports[r].approvals,
                            chain[reports[r].tx_hash].logs)

\* a returned summary of a receipt <<unrecognized log, Transfer log>> with
\* the one record of the second log
C1_Witness ==
    \E r \in 1..Len(reports) :
        LET lgs == chain[reports[r].tx_hash].logs
        IN  /\ Len(lgs) = 2
            /\ lgs[1].topics # <<>>
            /\ ~IsRecognizedKind(lgs[1])
            /\ lgs[2].topics[1] = SIG_TRANSFER
            /\ Len(reports[r].transfers) = 1
            /\ reports[r].transfers[1].from_addr = <<"0x", lgs[2].topics[2][2]>>

TenBillion == <<1, 0, 0, 0, 0, 0, 0, 0, 0, 0, 0>>

\* C2: the record of a Transfer log is ERC721 with token-id = raw amount and
\* amount "1" when decimals() raised, or returned 0 and the raw amount is
\* below 10,000,000,000; otherwise it is ERC20 without token-id and its
\* amount is the raw amount formatted with the decimals returned. raw_amount
\* is the integer of the payload in both cases.
C2_TransferClassification ==
    AfterLog(SIG_TRANSFER) =>
        LET t   == Last(transfers)
            raw == from_bytes(logs[li].data)
        IN  /\ t.raw_amount = raw
            /\ IF \/ answers.decimals = Raised
                  \/ answers.decimals = Returned(0) /\ Less(raw, TenBillion)
               THEN /\ t.standard = "ERC721"
                    /\ t.token_id = raw
                    /\ t.amount = <<"1">>
               ELSE /\ t.standard = "ERC20"
                    /\ t.token_id = None
                    /\ \E tie_up \in BOOLEAN :
                          t.amount = _format_amount(raw, answers.decimals[2], tie_up)

\* a Transfer log of raw amount 3 whose decimals() raised: ERC721, token-id 3
C2_Witness ==
    /\ AfterLog(SIG_TRANSFER)
    /\ answers.decimals = Raised
    /\ Last(transfers).raw_amount = <<3>>
    /\ Last(transfers).token_id = <<3>>
    /\ Last(transfers).standard = "ERC721"
    /\ Last(transfers).amount = <<"1">>

\* the hash's receipt is found and none of its logs makes parse_tx raise
Succeeds(h) ==
    /\ chain[h].found
    /\ \A i \in 1..Len(chain[h].logs) : ~Raises(chain[h].logs[i])

Fails(h) == ~Succeeds(h)

\* C3: every requested hash is handled, whether earlier ones failed or not:
\* when main is done, reports holds the summaries of exactly the hashes that
\* succeeded, in request order, and each other hash was reported as failed.
C3_BatchContinues ==
    /\ Len(reports) + Len(errors) = txi
    /\ pc = "done" =>
          /\ txi = Len(argv_tx)
          /\ [i \in 1..Len(reports) |-> reports[i].tx_hash] = SelectSeq(argv_tx, Succeeds)
          /\ [i \in 1..Len(errors) |-> errors[i].tx_hash] = SelectSeq(argv_tx, Fails)

\* main is done, a hash failed and a later one was decoded and reported
C3_Witness ==
    /\ pc = "done"
    /\ \E i, j \in 1..Len(argv_tx) :
          /\ i < j
          /\ Fails(argv_tx[i])
          /\ Succeeds(argv_tx[j])
          /\ \E r \in 1..Len(reports) : reports[r].tx_hash = argv_tx[j]
          /\ \E e \in 1..Len(errors) : errors[e].tx_hash = argv_tx[i]

\* the payload is shorter than the event kind requires
PayloadTooShort(lg) ==
    \/ lg.topics[1] \in {SIG_TRANSFER, SIG_APPROVAL} /\ Len(lg.data) < 32
    \/ lg.topics[1] = SIG_TF_SINGLE /\ Len(lg.data) < 64

\* C4: a log with a recognized signature and a payload shorter than its
\* event kind requires produces no record, and the other logs still do: the
\* records are as many as the recognized logs with a full payload.
C4_ShortPayloadSkipped ==
    pc = "logs" =>
        Len(transfers) + Len(approvals) =
            Cardinality({ i \in 1..li :
                IsRecognizedKind(logs[i]) /\ ~PayloadTooShort(logs[i]) })

\* the lookup made for each recognized log ended with a result
LookupsComplete ==
    pc = "logs" =>
        Len(lookups) = Cardinality({ i \in 1..li : IsRecognizedKind(logs[i]) })

\* C5 as claimed: the lookup ends with a result whichever calls raise; when
\* decimals() returned, with that value and ERC20; when it raised, with
\* decimals 0, ERC721 and the symbol of the ERC721 retry, "UNKNOWN" if the
\* retry raised.
C5_RetryFailureGivesUnknown ==
    /\ LookupsComplete
    /\ answers # NoAnswers =>
          IF answers.decimals # Raised
          THEN /\ meta.decimals = answers.decimals[2]
               /\ meta.standard = "ERC20"
          ELSE /\ meta.decimals = 0
               /\ meta.standard = "ERC721"
               /\ meta.symbol = IF answers.symbol721 # Raised
                                THEN answers.symbol721[2]
                                ELSE "UNKNOWN"

\* C5 amended: as above, but when the retry raised the symbol is the one the
\* first symbol() call returned, and "UNKNOWN" only if that call raised too.
C5_MetadataDefaults ==
    /\ LookupsComplete
    /\ answers # NoAnswers =>
          IF answers.decimals # Raised
          THEN /\ meta.decimals = answers.decimals[2]
               /\ meta.standard = "ERC20"
               /\ meta.symbol = IF answers.symbol # Raised
                                THEN answers.symbol[2]
                                ELSE "UNKNOWN"
          ELSE /\ meta.decimals = 0
               /\ meta.standard = "ERC721"
               /\ meta.symbol = IF answers.symbol721 # Raised
                                THEN answers.symbol721[2]
                                ELSE IF answers.symbol # Raised
                                     THEN answers.symbol[2]
                                     ELSE "UNKNOWN"

\* a lookup whose decimals() and ERC721 symbol() raised after the first
\* symbol() had returned
C5_Witness ==
    /\ pc = "logs"
    /\ answers.symbol = Returned("TKN")
    /\ answers.decimals = Raised
    /\ answers.symbol721 = Raised
    /\ meta = [symbol |-> "TKN", decimals |-> 0, standard |-> "ERC721"]

\* C6 as claimed: a transfer of a returned summary has a token-id if and
\* only if its standard is ERC721 or ERC1155.
C6_TokenIdIffNonFungible ==
    \A r \in 1..Len(reports) :
        \A i \in 1..Len(reports[r].transfers) :
            LET t == reports[r].transfers[i]
            IN  (t.token_id # None) <=> (t.standard \in {"ERC721", "ERC1155"})

\* C6 amended: a transfer of a returned summary has a token-id if and only
\* if its standard is ERC721 or ERC1155 and it is not the record of a
\* TransferBatch log (ERC1155, amount "BATCH", raw amount 0), which has none.
C6_TokenIdExceptBatch ==
    \A r \in 1..Len(reports) :
        \A i \in 1..Len(reports[r].transfers) :
            LET t == reports[r].transfers[i]
                batch == /\ t.standard = "ERC1155"
                         /\ t.amount = <<"B", "A", "T", "C", "H">>
                         /\ t.raw_amount = <<0>>
            IN  /\ (t.token_id # None) <=>
                      (t.standard \in {"ERC721", "ERC1155"} /\ ~batch)
                /\ t.standard \in {"ERC20", "ERC721", "ERC1155"}
                /\ t.amount = <<"B", "A", "T", "C", "H">> => batch

\* a returned summary with an ERC20 record without token-id and an ERC1155
\* record with one
C6_Witness ==
    \E r \in 1..Len(reports) :
        LET t == reports[r].transfers
        IN  /\ Len(t) = 2
            /\ t[1].standard = "ERC1155"
            /\ t[1].token_id = <<0>>
            /\ t[2].standard = "ERC20"
            /\ t[2].token_id = None

\* C7: the record of a TransferSingle log that carries its three indexed
\* topics is ERC1155 whatever the lookup answered, with token-id the first
\* 32-byte word of the payload, raw_amount the second, amount the decimal
\* string of raw_amount, sender topics[2] and recipient topics[3].
C7_TransferSingle ==
    AfterLog(SIG_TF_SINGLE) =>
        LET t  == Last(transfers)
            lg == logs[li]
        IN  /\ t.standard = "ERC1155"
            /\ t.token_id = from_bytes(Slice(lg.data, 0, 32))
            /\ t.raw_amount = from_bytes(Slice(lg.data, 32, 64))
            /\ t.amount = Str(t.raw_amount)
            /\ t.from_addr = <<"0x", lg.topics[3][2]>>
            /\ t.to_addr = <<"0x", lg.topics[4][2]>>

\* the payload of 32 zero bytes and a word encoding 5, with a lookup that
\* returned 18 decimals: ERC1155, token-id 0, amount "5"
C7_Witness ==
    /\ AfterLog(SIG_TF_SINGLE)
    /\ answers.decimals = Returned(18)
    /\ logs[li].data = Zeros(63) \o <<5>>
    /\ Last(transfers).standard = "ERC1155"
    /\ Last(transfers).token_id = <<0>>
    /\ Last(transfers).raw_amount = <<5>>
    /\ Last(transfers).amount = <<"5">>

\* the formatted string read back as a decimal, in units of 10^-8
ParsedUnits(str) ==
    LET dot  == IF \E i \in 1..Len(str) : str[i] = "."
                THEN CHOOSE i \in 1..Len(str) : str[i] = "."
                ELSE Len(str) + 1
        ip   == SubSeq(str, 1, dot - 1)
        fp   == SubSeq(str, dot + 1, Len(str))
        num  == [i \in 1..(Len(ip) + Len(fp)) |-> CharDigit((ip \o fp)[i])]
    IN  Shift(num, 8 - Len(fp))

\* 10^8 * | parsed * 10^decimals - raw |
RoundTripError(f) ==
    AbsDiff(Shift(ParsedUnits(f.out), f.decimals), Shift(f.raw, 8))

C9_LookupOncePerAddress ==
    /\ \A i, j \in 1..Len(lookups) : lookups[i] = lookups[j] => i = j
    /\ \A i, j \in 1..Len(transfers) :
          transfers[i].token = transfers[j].token
              => transfers[i].symbol = transfers[j].symbol

\* C10: decoding is total: whatever the logs of a receipt that was fetched,
\* no log makes parse_tx raise, so the only failures main reports are those
\* of the fetch.
C10_DecodingTotal ==
    /\ exc # "IndexError"
    /\ \A e \in 1..Len(errors) : errors[e].e = "TransactionNotFound"

====
